---- MODULE Spec2Model ----
(***************************************************************************)
(* Model of components.py: connected-component labelling of a binary       *)
(* raster (find_components over a ComponentMap) followed by the colouring  *)
(* pass (color_code_components with ColorGen) and the command line (main). *)
(***************************************************************************)
EXTENDS Integers, Sequences, FiniteSets, TLC

VARIABLES argv_len,       \* len(sys.argv)
          conn,           \* neighbour rule in force: 8 (components.py) or 4
          size,           \* im.size = <<w, h>>
          im,             \* the mode-1 image: [pixel -> BOOLEAN]
          pc,             \* position of main
          pos,            \* number of pixels iterpixels has already yielded
          component_map,  \* ComponentMap.component_map: point -> component
          next_key,       \* ComponentMap._next_key
          color_pos,      \* number of pixels the colouring pass has handled
          color_data,     \* the pixel data put into the output image
          color_map,      \* color_map of the colouring pass: component -> colour
          color_h,        \* ColorGen.h, in units of 1/100000
          stdout,         \* what main printed
          exit_status,    \* exit status of the process, NoExit while running
          called,         \* core functions invoked so far
          merge_log,      \* the last call of merge_components
          ever_stored,    \* every component that was ever a value of the map
          superseded,     \* components merged into another one
          multi_at,       \* rows during which len(cmap) exceeded 1
          row_split       \* rows whose processed pixels held two components

vars == <<argv_len, conn, size, im, pc, pos, component_map, next_key,
          color_pos, color_data, color_map, color_h, stdout, exit_status,
          called, merge_log, ever_stored, superseded, multi_at, row_split>>

----------------------------------------------------------------------------
(* Bounds *)

MaxW == 5

MaxH == 3

MaxArea == 10

MaxArgv == 4

WideW == 467

----------------------------------------------------------------------------
(* Values *)

\* Python's None, returned by dict.get for a point that has no entry.
None == -1

\* No exit status yet: the process is still running.
NoExit == -2

Black == <<0, 0, 0>>

EmptyMap == [k \in {} |-> None]

Range(f) == {f[k] : k \in DOMAIN f}

Abs(n) == IF n < 0 THEN -n ELSE n

\* list(cset): some enumeration of the set, in an order Python does not fix.
SetToSeqs(S) == {s \in [1..Cardinality(S) -> S] : Range(s) = S}

----------------------------------------------------------------------------
(* ComponentMap *)

\* ComponentMap.__len__
len(m) == Cardinality(Range(m))

get_component(m, point) == IF point \in DOMAIN m THEN m[point] ELSE None

get_components(m, points) == {get_component(m, p) : p \in points}

merge_set_into_base_inverted(m, merge_from, base) ==
    [k \in DOMAIN m |-> IF m[k] # merge_from THEN base ELSE m[k]]

merge_set_into_base(m, merge_from, base) ==
    [k \in DOMAIN m |-> IF m[k] = merge_from THEN base ELSE m[k]]

RECURSIVE MergeEach(_, _, _)
\* for c in clist[1:]: self._merge_set_into_base(c, base)
MergeEach(m, rest, base) ==
    IF rest = <<>> THEN m
    ELSE MergeEach(merge_set_into_base(m, Head(rest), base), Tail(rest), base)

merge_components_no_rewrite(m, clist) == [map |-> m, ret |-> clist[1]]

merge_components_first_only(m, clist) ==
    [map |-> IF Len(clist) > 1
             THEN merge_set_into_base(m, clist[1], clist[2]) ELSE m,
     ret |-> clist[1]]

\* merge_components after cset/clist are built and the assertion has passed.
merge_components(m, clist) ==
    [map |-> MergeEach(m, Tail(clist), clist[1]), ret |-> clist[1]]

add(m, point, component) ==
    [k \in DOMAIN m \cup {point} |-> IF k = point THEN component ELSE m[k]]

make_component_same_key(m, key, point) ==
    [map |-> add(m, point, key), next_key |-> key]

make_component(m, key, point) ==
    [map |-> add(m, point, key), next_key |-> key + 1]

----------------------------------------------------------------------------
(* The scan *)

get_prior_neighbors_no_upright(pt, sz) ==
    LET x == pt[1]
        y == pt[2]
    IN  (IF x > 0 /\ y > 0 THEN {<<x - 1, y - 1>>} ELSE {})
        \cup (IF y > 0 THEN {<<x, y - 1>>} ELSE {})
        \cup (IF x > 0 THEN {<<x - 1, y>>} ELSE {})

get_prior_neighbors_no_upleft(pt, sz) ==
    LET x == pt[1]
        y == pt[2]
    IN  (IF y > 0 THEN {<<x, y - 1>>} ELSE {})
        \cup (IF y > 0 /\ x < sz[1] - 1 THEN {<<x + 1, y - 1>>} ELSE {})
        \cup (IF x > 0 THEN {<<x - 1, y>>} ELSE {})

get_prior_neighbors(pt, sz) ==
    LET x == pt[1]
        y == pt[2]
    IN  (IF x > 0 /\ y > 0 THEN {<<x - 1, y - 1>>} ELSE {})
        \cup (IF y > 0 THEN {<<x, y - 1>>} ELSE {})
        \cup (IF y > 0 /\ x < sz[1] - 1 THEN {<<x + 1, y - 1>>} ELSE {})
        \cup (IF x > 0 THEN {<<x - 1, y>>} ELSE {})

\* The 4-way neighbour rule of the other version of the labeller.
get_prior_neighbors4(pt, sz) ==
    LET x == pt[1]
        y == pt[2]
    IN  (IF y > 0 THEN {<<x, y - 1>>} ELSE {})
        \cup (IF x > 0 THEN {<<x - 1, y>>} ELSE {})

neighbors(pt, sz, c) ==
    IF c = 8 THEN get_prior_neighbors(pt, sz) ELSE get_prior_neighbors4(pt, sz)

\* The k-th point (from 0) that iterpixels(size) yields.
iterpixels(sz, k) == <<k % sz[1], k \div sz[1]>>

NPix(sz) == sz[1] * sz[2]

Points(sz) == (0..(sz[1] - 1)) \X (0..(sz[2] - 1))

\* Python truthiness of a component: filter(None, ...) drops None and 0.
Falsy(c) == c = None \/ c = 0

active_neighbor_components_unfiltered(comps) == comps

active_neighbor_components(comps) == {c \in comps : ~Falsy(c)}

\* What one iteration of the loop of find_components does for the point p,
\* clist being list(cset) inside merge_components (empty: no active neighbour).
ScanResult(p, active, clist) ==
    IF ~im[p]
    THEN [map |-> component_map, key |-> next_key, log |-> merge_log,
          sup |-> {}]
    ELSE IF active = {}
    THEN LET mk == make_component(component_map, next_key, p)
         IN  [map |-> mk.map, key |-> mk.next_key, log |-> merge_log,
              sup |-> {}]
    ELSE LET mg == merge_components(component_map, clist)
         IN  [map |-> add(mg.map, p, mg.ret), key |-> next_key,
              log |-> [called |-> TRUE, point |-> p, cset |-> active,
                       ret |-> mg.ret, pre |-> component_map,
                       post |-> mg.map],
              sup |-> active \ {mg.ret}]

\* Rows whose entries in m hold more than one component.
SplitRows(m) ==
    {y \in {q[2] : q \in DOMAIN m} :
        Cardinality({m[q] : q \in {r \in DOMAIN m : r[2] = y}}) > 1}

----------------------------------------------------------------------------
(* ColorGen and the colouring pass *)

HueStep == 61803

HueUnit == 100000

\* ColorGen.__next__: the new hue, in units of 1/HueUnit.
ColorGen_next(h) == (h + HueStep) % HueUnit

\* colorsys.hsv_to_rgb(h, .7, .8) with every channel passed through
\* int(x*255), in exact arithmetic (it agrees with the floating-point
\* computation on each of the first 49999 hues of the sequence).
rgb_255(h) ==
    LET i == (6 * h) \div HueUnit
        f == (6 * h) % HueUnit
        v == 204
        p == 61
        q == (204000000 - 1428 * f) \div 1000000
        t == (61200000 + 1428 * f) \div 1000000
    IN  CASE i % 6 = 0 -> <<v, t, p>>
          [] i % 6 = 1 -> <<q, v, p>>
          [] i % 6 = 2 -> <<p, v, t>>
          [] i % 6 = 3 -> <<p, q, v>>
          [] i % 6 = 4 -> <<t, p, v>>
          [] i % 6 = 5 -> <<v, p, q>>

InitColorMap_no_background == [k \in {} |-> Black]

\* color_map[None] = (0, 0, 0)
InitColorMap == (None :> Black)

\* color_map[component] on the defaultdict built over color_gen.__next__:
\* a component not seen before draws the next colour of the sequence.
color_map_lookup(cm, h, component) ==
    IF component \in DOMAIN cm
    THEN [color_map |-> cm, h |-> h, color |-> cm[component]]
    ELSE LET h2 == ColorGen_next(h)
         IN  [color_map |-> cm @@ (component :> rgb_255(h2)), h |-> h2,
              color |-> rgb_255(h2)]

----------------------------------------------------------------------------
(* Initial states *)

Sizes == {sz \in (1..MaxW) \X (1..MaxH) : sz[1] * sz[2] <= MaxArea}

NoMerge == [called |-> FALSE, point |-> <<0, 0>>, cset |-> {}, ret |-> None,
            pre |-> EmptyMap, post |-> EmptyMap]

InitRun ==
    /\ argv_len \in 1..MaxArgv
    /\ pc = "main"
    /\ pos = 0
    /\ component_map = EmptyMap
    /\ next_key = 1
    /\ color_pos = 0
    /\ color_data = <<>>
    /\ color_map = EmptyMap
    /\ color_h = 0
    /\ stdout = <<>>
    /\ exit_status = NoExit
    /\ called = {}
    /\ merge_log = NoMerge
    /\ ever_stored = {}
    /\ superseded = {}
    /\ multi_at = {}
    /\ row_split = {}

\* components.py on any image of a bounded size.
Init ==
    /\ conn = 8
    /\ size \in Sizes
    /\ im \in [Points(size) -> BOOLEAN]
    /\ InitRun

\* Either version of the labeller (8-way or 4-way) on the same images.
InitConn ==
    /\ conn \in {4, 8}
    /\ size \in Sizes
    /\ im \in [Points(size) -> BOOLEAN]
    /\ InitRun

\* components.py on one long row whose every second pixel is foreground.
InitWide ==
    /\ conn = 8
    /\ size = <<WideW, 1>>
    /\ im \in {[p \in Points(size) |-> p[1] % 2 = o] : o \in {0, 1}}
    /\ InitRun

----------------------------------------------------------------------------
(* Actions *)

\* main with len(sys.argv) != 3: usage() prints and calls sys.exit().
usage ==
    /\ pc = "main"
    /\ argv_len # 3
    /\ stdout' = <<"usage">>
    /\ exit_status' = 0
    /\ pc' = "exit"
    /\ UNCHANGED <<argv_len, conn, size, im, pos, component_map, next_key,
                   color_pos, color_data, color_map, color_h, called,
                   merge_log, ever_stored, superseded, multi_at, row_split>>

\* main with two arguments opens the image and enters find_components.
main ==
    /\ pc = "main"
    /\ argv_len = 3
    /\ pc' = "find_components"
    /\ called' = called \cup {"find_components"}
    /\ component_map' = EmptyMap
    /\ next_key' = 1
    /\ pos' = 0
    /\ UNCHANGED <<argv_len, conn, size, im, color_pos, color_data, color_map,
                   color_h, stdout, exit_status, merge_log, ever_stored,
                   superseded, multi_at, row_split>>

\* One iteration of the loop of find_components.
find_components ==
    /\ pc = "find_components"
    /\ pos < NPix(size)
    /\ LET p == iterpixels(size, pos)
           comps == get_components(component_map, neighbors(p, size, conn))
           active == IF im[p] THEN active_neighbor_components(comps) ELSE {}
       IN  IF None \in active
           THEN \* assert None not in cset
                /\ pc' = "AssertionError"
                /\ exit_status' = 1
                /\ UNCHANGED <<pos, component_map, next_key, merge_log,
                               ever_stored, superseded, multi_at, row_split>>
           ELSE \E clist \in SetToSeqs(active) :
                  LET r == ScanResult(p, active, clist)
                  IN  /\ component_map' = r.map
                      /\ next_key' = r.key
                      /\ merge_log' = r.log
                      /\ superseded' = superseded \cup r.sup
                      /\ ever_stored' = ever_stored \cup Range(r.map)
                      /\ multi_at' = IF len(r.map) > 1
                                     THEN multi_at \cup {p[2]} ELSE multi_at
                      /\ row_split' = row_split \cup SplitRows(r.map)
                      /\ pos' = pos + 1
                      /\ UNCHANGED <<pc, exit_status>>
    /\ UNCHANGED <<argv_len, conn, size, im, color_pos, color_data, color_map,
                   color_h, stdout, called>>

\* find_components returns its map and color_code_components is entered.
color_code_start ==
    /\ pc = "find_components"
    /\ pos = NPix(size)
    /\ pc' = "color_code_components"
    /\ called' = called \cup {"color_code_components"}
    /\ color_map' = InitColorMap
    /\ color_h' = 0
    /\ color_data' = <<>>
    /\ color_pos' = 0
    /\ UNCHANGED <<argv_len, conn, size, im, pos, component_map, next_key,
                   stdout, exit_status, merge_log, ever_stored, superseded,
                   multi_at, row_split>>

\* One iteration of the loop of color_code_components.
color_code_components ==
    /\ pc = "color_code_components"
    /\ color_pos < NPix(size)
    /\ LET component == get_component(component_map,
                                      iterpixels(size, color_pos))
           r == color_map_lookup(color_map, color_h, component)
       IN  /\ color_map' = r.color_map
           /\ color_h' = r.h
           /\ color_data' = Append(color_data, r.color)
    /\ color_pos' = color_pos + 1
    /\ UNCHANGED <<argv_len, conn, size, im, pc, pos, component_map, next_key,
                   stdout, exit_status, called, merge_log, ever_stored,
                   superseded, multi_at, row_split>>

\* The image is complete: main saves it, prints the number of colours, ends.
save ==
    /\ pc = "color_code_components"
    /\ color_pos = NPix(size)
    /\ stdout' = <<"Saved", len(component_map)>>
    /\ exit_status' = 0
    /\ pc' = "exit"
    /\ UNCHANGED <<argv_len, conn, size, im, pos, component_map, next_key,
                   color_pos, color_data, color_map, color_h, called,
                   merge_log, ever_stored, superseded, multi_at, row_split>>

Next ==
    \/ usage
    \/ main
    \/ find_components
    \/ color_code_start
    \/ color_code_components
    \/ save

Spec == Init /\ [][Next]_vars

SpecConn == InitConn /\ [][Next]_vars

SpecWide == InitWide /\ [][Next]_vars

FairSpec == Init /\ [][Next]_vars /\ WF_vars(Next)

----------------------------------------------------------------------------
(* Reference notions the properties are stated with *)

Adjacent8(p, q) == p # q /\ Abs(p[1] - q[1]) <= 1 /\ Abs(p[2] - q[2]) <= 1

Adjacent4(p, q) == Abs(p[1] - q[1]) + Abs(p[2] - q[2]) = 1

Adjacent(p, q, c) == IF c = 8 THEN Adjacent8(p, q) ELSE Adjacent4(p, q)

Diagonal(p, q) == Abs(p[1] - q[1]) = 1 /\ Abs(p[2] - q[2]) = 1

RECURSIVE Grow(_, _, _)
\* The pixels of fg joined to a pixel of S by a path of adjacent pixels of fg.
Grow(S, fg, c) ==
    LET more == S \cup {q \in fg : \E p \in S : Adjacent(p, q, c)}
    IN  IF more = S THEN S ELSE Grow(more, fg, c)

\* The maximal connected regions of fg.
Regions(fg, c) == {Grow({p}, fg, c) : p \in fg}

Foreground == {p \in Points(size) : im[p]}

\* The foreground pixels among the first k of the raster order.
ForegroundPrefix(k) == {p \in Foreground : p[2] * size[1] + p[1] < k}

ColorAt(p) == color_data[p[2] * size[1] + p[1] + 1]

Scanning == "find_components" \in called /\ pc # "AssertionError"

ScanDone == Scanning /\ pos = NPix(size)

Colored == "color_code_components" \in called /\ color_pos = NPix(size)

SolidRows == {y \in 0..(size[2] - 1) : \A x \in 0..(size[1] - 1) : im[<<x, y>>]}

RowLabels(y) ==
    {get_component(component_map, <<x, y>>) : x \in 0..(size[1] - 1)}

----------------------------------------------------------------------------
(* Properties *)

\* C1: once the scan is complete the number of distinct components in the
\* map, which is also the colour count main prints, equals the number of
\* maximal 8-connected foreground regions of the image.
CountIsRegionCount ==
    /\ ScanDone =>
         len(component_map) = Cardinality(Regions(Foreground, 8))
    /\ (pc = "exit" /\ argv_len = 3) =>
         stdout = <<"Saved", Cardinality(Regions(Foreground, 8))>>

\* C1 witness: a merge superseded a component and two regions remain.
CountIsRegionCountWitness ==
    ScanDone /\ superseded # {} /\ len(component_map) = 2

\* C2 (as claimed): after the colouring pass two foreground pixels have the
\* same colour exactly when they lie in the same 8-connected region.
ColorsSeparateRegions ==
    Colored =>
        LET fg == Foreground
        IN  \A p \in fg :
               LET region == Grow({p}, fg, 8)
               IN  \A q \in fg :
                      (ColorAt(p) = ColorAt(q)) <=> (q \in region)

\* C3: after the colouring pass the output has one pixel per point of the
\* input, every background pixel is black, and the background took no colour
\* from the sequence (one draw per component, none for None).
BackgroundIsBlack ==
    Colored =>
        /\ Len(color_data) = NPix(size)
        /\ \A p \in Points(size) : ~im[p] => ColorAt(p) = Black
        /\ color_map[None] = Black
        /\ color_h = (len(component_map) * HueStep) % HueUnit

\* C3 witness: a coloured image with both background and foreground pixels.
BackgroundIsBlackWitness ==
    /\ Colored
    /\ \E p, q \in Points(size) :
          ~im[p] /\ im[q] /\ ColorAt(p) = Black /\ ColorAt(q) # Black

\* C4 (as claimed): with an argument count other than two the program prints
\* the usage message, exits with a non-zero status and never enters the core.
UsageExitsNonZero ==
    argv_len # 3 =>
        /\ called = {}
        /\ pc = "exit" => (stdout = <<"usage">> /\ exit_status # 0)

MergeFrame ==
    (merge_log.called /\ merge_log.cset # {} /\ None \notin merge_log.cset) =>
        /\ merge_log.ret \in merge_log.cset
        /\ DOMAIN merge_log.post = DOMAIN merge_log.pre
        /\ merge_log.point \notin DOMAIN merge_log.post
        /\ \A k \in DOMAIN merge_log.pre :
              IF merge_log.pre[k] \in merge_log.cset
              THEN merge_log.post[k] = merge_log.ret
              ELSE merge_log.post[k] = merge_log.pre[k]

\* C6 witness: a merge of two components while a third one is in the map.
MergeFrameWitness ==
    /\ merge_log.called
    /\ Cardinality(merge_log.cset) = 2
    /\ \E k \in DOMAIN merge_log.pre : merge_log.pre[k] \notin merge_log.cset
    /\ \E k \in DOMAIN merge_log.pre : merge_log.pre[k] # merge_log.post[k]

\* C7: merge_components is never called with None in its set, the assertion
\* never fails, and a scan that has started reaches its end.
MergeNeverSeesNone ==
    /\ [](pc # "AssertionError" /\ None \notin merge_log.cset)
    /\ (pc = "find_components") ~> ScanDone

\* C7 witness: a merge for a point one of whose prior neighbours has no
\* entry, so that get_components yielded a None that was filtered out.
MergeNeverSeesNoneWitness ==
    /\ merge_log.called
    /\ \E n \in neighbors(merge_log.point, size, conn) :
          n \notin DOMAIN merge_log.pre

\* C8 (as claimed): for a solid foreground row of at least three pixels the
\* map holds more than one component at some point of the row, and at the
\* end of the scan the row holds one component.
SolidRowHasTransientLabels ==
    ScanDone =>
        \A y \in SolidRows :
            size[1] >= 3 =>
                (y \in multi_at /\ Cardinality(RowLabels(y)) = 1)

\* C8 (amended): no second component arises within a solid foreground row:
\* at every point of the scan the processed pixels of the row hold one and
\* the same component (a grid that is one solid row never has two components
\* in its map), and at the end of the scan the whole row holds one component.
SolidRowOneLabel ==
    \A y \in SolidRows :
        /\ y \notin row_split
        /\ size[2] = 1 => y \notin multi_at
        /\ ScanDone =>
              (Cardinality(RowLabels(y)) = 1 /\ None \notin RowLabels(y))

\* C8 witness: a solid row of three or more pixels whose scan merged two
\* components of the row above into one.
SolidRowOneLabelWitness ==
    /\ ScanDone
    /\ size[1] >= 3
    /\ \E y \in SolidRows : y \in multi_at /\ merge_log.point[2] = y
    /\ superseded # {}

\* C9 (as claimed): every component that was ever a value of the map is
\* still the component of some point when the scan ends.
NoLabelDangling ==
    ScanDone => ever_stored \subseteq Range(component_map)

\* C9 (amended): at the end of the scan the components still stored are
\* exactly those that were ever stored and that no merge superseded.
LiveUnlessSuperseded ==
    ScanDone => Range(component_map) = ever_stored \ superseded

\* C9 witness: the scan ended with a component that was stored and is gone.
LiveUnlessSupersededWitness ==
    /\ ScanDone
    /\ Range(component_map) # {}
    /\ ever_stored \ Range(component_map) # {}

\* C10: after any prefix of the raster order the keys of the map are the
\* foreground pixels of the prefix, and two of them hold the same component
\* exactly when a path of 8-adjacent foreground pixels of the prefix joins
\* them.
PrefixInvariant ==
    Scanning =>
        LET fg == ForegroundPrefix(pos)
        IN  /\ DOMAIN component_map = fg
            /\ \A p \in fg :
                  LET region == Grow({p}, fg, 8)
                  IN  \A q \in fg :
                         (component_map[p] = component_map[q])
                             <=> (q \in region)

\* C10 witness: mid-scan, two pixels of one region of the image still hold
\* different components because the pixels joining them are not yet scanned.
PrefixInvariantWitness ==
    /\ Scanning
    /\ pos < NPix(size)
    /\ \E p, q \in DOMAIN component_map :
          /\ component_map[p] # component_map[q]
          /\ q \in Grow({p}, Foreground, 8)

====
